---- MODULE Spec2Model ----
(***************************************************************************)
(* Model of scripts/data_utils.py: the cancelled-ride resolver             *)
(* (identify_cancelled_rides, remove_cancelled_fare_pairs) and the outlier *)
(* filter (remove_outliers), over a pandas DataFrame with a RangeIndex.    *)
(* The caller passes remove_cancelled_fare_pairs the table it passed       *)
(* identify_cancelled_rides, and the pairs that call returned.             *)
(*                                                                         *)
(* A DataFrame is a sequence of rows; the row at position p carries the    *)
(* index label p - 1.  A cell is <<v>> for a value v and <<>> for a null   *)
(* (NaN / None).  Quantile levels are percentages (0.01 is 1) and a        *)
(* quantile value is kept multiplied by 100, so that linear interpolation  *)
(* stays in the integers.                                                  *)
(***************************************************************************)
EXTENDS Integers, Sequences, FiniteSets

VARIABLES
    df,             \* the caller's table (identify_cancelled_rides writes into it)
    df_in,          \* the table as the caller passed it to the current pass
    ride_id_cols,   \* argument of identify_cancelled_rides
    fee_cols,       \* argument of identify_cancelled_rides
    lower,          \* argument of remove_outliers, in percent
    upper,          \* argument of remove_outliers, in percent
    matched_pairs,  \* value returned by identify_cancelled_rides
    result,         \* table returned by remove_cancelled_fare_pairs / remove_outliers
    returned,       \* TRUE once a result table has been returned
    err,            \* exception raised by the last call, "none" if it returned
    pc,             \* where the caller is
    pass,           \* 1 on the first resolver pass, 2 when it runs on its own output
    prev            \* output of the previous resolver pass

vars == <<df, df_in, ride_id_cols, fee_cols, lower, upper, matched_pairs,
          result, returned, err, pc, pass, prev>>

----------------------------------------------------------------------------
(* Bounds of the model *)

MaxRows == 3
MaxOutRows == 3
MaxAllRows == 2

----------------------------------------------------------------------------
(* Cells, rows, tables *)

NaN == <<>>

Columns == {"PU_datetime", "fare_amount", "tip_amount", "duration_mins", "trip_distance"}

isna(c) == c = NaN

\* faulty variant: every cell of the column overwritten
fill_all(c, v) == <<v>>

\* Series.fillna(v): nulls become v, every other cell is kept
fillna(c, v) == IF isna(c) THEN <<v>> ELSE c

\* comparisons of a cell with a number: a null compares False
lt(c, n) == ~isna(c) /\ c[1] < n
gt(c, n) == ~isna(c) /\ c[1] > n
ge(c, n) == ~isna(c) /\ c[1] >= n

Range(s) == {s[i] : i \in DOMAIN s}

\* the positions, in order, at which a boolean mask is True
Positions(mask) ==
    LET idx == [i \in 1..Len(mask) |-> i]
        on(i) == mask[i]
    IN  SelectSeq(idx, on)

\* df[mask].reset_index(drop=True), given the kept positions
take(t, ps) == SubSeq([k \in 1..Len(ps) |-> t[ps[k]]], 1, Len(ps))

----------------------------------------------------------------------------
(* identify_cancelled_rides *)

\* for col in ride_id_cols: df[col] = df[col].fillna('N/A')
\* a column that is absent raises KeyError when the loop reaches it
RECURSIVE fill_id_cols(_, _)
fill_id_cols(t, cols) ==
    IF cols = <<>> THEN [df |-> t, err |-> "none"]
    ELSE IF Head(cols) \notin Columns THEN [df |-> t, err |-> "KeyError"]
    ELSE fill_id_cols(
            [i \in DOMAIN t |-> [t[i] EXCEPT ![Head(cols)] = fillna(@, "N/A")]],
            Tail(cols))

\* df[fee_cols] = df[fee_cols].fillna(0)
fill_fee_cols(t, fees) ==
    IF \E f \in Range(fees) : f \notin Columns
    THEN [df |-> t, err |-> "KeyError"]
    ELSE [df |-> [i \in DOMAIN t |->
                    [c \in Columns |->
                        IF c \in Range(fees) THEN fillna(t[i][c], 0) ELSE t[i][c]]],
          err |-> "none"]

\* df[(df[fee_cols] < 0).any(axis=1)]: positions of the negative group
neg_fare(t, fees) ==
    LET mask(i) == \E f \in Range(fees) : lt(t[i][f], 0)
    IN  Positions([r \in 1..Len(t) |-> mask(r)])

\* df[(df[fee_cols] > 0).any(axis=1)]: positions of the positive group
pos_fare(t, fees) ==
    LET mask(i) == \E f \in Range(fees) : gt(t[i][f], 0)
    IN  Positions([r \in 1..Len(t) |-> mask(r)])

\* neg_fare.merge(pos_fare, on=ride_id_cols): inner equi-join in the order of
\* the left rows, each with its matching right rows in their order.  Every
\* joined row remembers the positions of its two source rows.
RECURSIVE merge(_, _, _, _)
merge(t, neg, pos, on) ==
    IF neg = <<>> THEN <<>>
    ELSE LET i == Head(neg)
             same(j) == \A c \in Range(on) : t[i][c] = t[j][c]
             js == SelectSeq(pos, same)
         IN  [k \in 1..Len(js) |-> [neg |-> i, pos |-> js[k]]]
             \o merge(t, Tail(neg), pos, on)

\* faulty variant: the comparison without the negation
fee_equal_mask(t, m, fees) ==
    \A f \in Range(fees) : t[m.neg][f][1] = t[m.pos][f][1]

\* (merged[f_neg].values == -merged[f_pos].values).all(axis=1)
fee_opposite_mask(t, m, fees) ==
    \A f \in Range(fees) : t[m.neg][f][1] = 0 - t[m.pos][f][1]

\* merged_fares[fee_opposite_mask]: the accepted rows keep the label they
\* have in the merged frame, which is a fresh RangeIndex 0, 1, 2, ...
select_matched(t, merged, fees) ==
    LET labelled == [k \in 1..Len(merged) |->
                        [index |-> k - 1, neg |-> merged[k].neg, pos |-> merged[k].pos]]
        mask(m) == fee_opposite_mask(t, m, fees)
    IN  SelectSeq(labelled, mask)

\* the whole function: the table it leaves behind, the value it returns and
\* the exception it raises
identify_cancelled_rides(t, cols, fees) ==
    LET a == fill_id_cols(t, cols)
        b == fill_fee_cols(a.df, fees)
    IN  IF a.err # "none" THEN [df |-> a.df, err |-> a.err, matched_pairs |-> <<>>]
        ELSE IF b.err # "none" THEN [df |-> b.df, err |-> b.err, matched_pairs |-> <<>>]
        ELSE [df |-> b.df, err |-> "none",
              matched_pairs |->
                 select_matched(b.df,
                     merge(b.df, neg_fare(b.df, fees), pos_fare(b.df, fees), cols),
                     fees)]

----------------------------------------------------------------------------
(* remove_cancelled_fare_pairs *)

\* matched_pairs.index
matched_idx(mp) == {mp[k].index : k \in DOMAIN mp}

\* faulty variant: the final filter left out
no_fare_filter(row) == TRUE

\* the final filter: df_cleaned['fare_amount'] >= 0
fare_filter(row) == ge(row["fare_amount"], 0)

\* positions of df that survive ~df.index.isin(matched_idx) and the fare filter
kept_positions(t, mp) ==
    LET mask(p) == (p - 1) \notin matched_idx(mp) /\ fare_filter(t[p])
    IN  Positions([r \in 1..Len(t) |-> mask(r)])

remove_cancelled_fare_pairs(t, mp) == take(t, kept_positions(t, mp))

----------------------------------------------------------------------------
(* remove_outliers *)

\* the values in ascending order (a stable argsort: rank by value, ties by
\* position)
sort_values(s) ==
    LET n == Len(s)
        rank == [i \in 1..n |->
                    Cardinality({j \in 1..n : s[j] < s[i] \/ (s[j] = s[i] /\ j < i)}) + 1]
    IN  [k \in 1..n |-> s[CHOOSE i \in 1..n : rank[i] = k]]

\* faulty variant: the lower order statistic, without interpolation
interpolate_lower(s, p) == 100 * s[(p * (Len(s) - 1)) \div 100 + 1]

\* linear interpolation at position q*(n-1) of the sorted values, times 100
interpolate(s, p) ==
    LET h == p * (Len(s) - 1)
        lo == h \div 100
        frac == h % 100
    IN  IF frac = 0 THEN 100 * s[lo + 1]
        ELSE 100 * s[lo + 1] + frac * (s[lo + 2] - s[lo + 1])

\* faulty variant: the ends of the range rejected as well
quantile_open_range(values, p) ==
    IF p <= 0 \/ p >= 100 THEN [err |-> "ValueError", v |-> NaN]
    ELSE IF values = <<>> THEN [err |-> "none", v |-> NaN]
    ELSE [err |-> "none", v |-> <<interpolate(sort_values(values), p)>>]

\* Series.quantile(q): q outside [0, 1] raises ValueError, an empty series
\* gives NaN
quantile(values, p) ==
    IF p < 0 \/ p > 100 THEN [err |-> "ValueError", v |-> NaN]
    ELSE IF values = <<>> THEN [err |-> "none", v |-> NaN]
    ELSE [err |-> "none", v |-> <<interpolate(sort_values(values), p)>>]

\* Series.between(left, right), inclusive; a NaN bound compares False
between(c, left, right) ==
    /\ ~isna(left) /\ ~isna(right) /\ ~isna(c)
    /\ 100 * c[1] >= left[1]
    /\ 100 * c[1] <= right[1]

\* faulty variant: zero counted as positive
nonnegative_positions(t) ==
    LET mask(i) == ge(t[i]["duration_mins"], 0) /\ ge(t[i]["trip_distance"], 0)
    IN  Positions([r \in 1..Len(t) |-> mask(r)])

\* df[(df[duration_col] > 0) & (df[distance_col] > 0)]: the kept positions
positive_positions(t) ==
    LET mask(i) == gt(t[i]["duration_mins"], 0) /\ gt(t[i]["trip_distance"], 0)
    IN  Positions([r \in 1..Len(t) |-> mask(r)])

\* df[c] of a frame without nulls in c, as a sequence of numbers
column(t, c) == SubSeq([i \in DOMAIN t |-> t[i][c][1]], 1, Len(t))

remove_outliers(t, lo, up) ==
    LET df_clean == take(t, positive_positions(t))
        duration_min == quantile(column(df_clean, "duration_mins"), lo)
        duration_max == quantile(column(df_clean, "duration_mins"), up)
        distance_min == quantile(column(df_clean, "trip_distance"), lo)
        distance_max == quantile(column(df_clean, "trip_distance"), up)
        mask(i) ==
            /\ between(df_clean[i]["duration_mins"], duration_min.v, duration_max.v)
            /\ between(df_clean[i]["trip_distance"], distance_min.v, distance_max.v)
    IN  IF duration_min.err # "none" THEN [err |-> duration_min.err, result |-> <<>>]
        ELSE IF duration_max.err # "none" THEN [err |-> duration_max.err, result |-> <<>>]
        ELSE [err |-> "none",
              result |-> take(df_clean, Positions([r \in 1..Len(df_clean) |-> mask(r)]))]

----------------------------------------------------------------------------
(* Inputs *)

Row(k, f, t, d, s) ==
    [c \in Columns |->
        CASE c = "PU_datetime" -> k
          [] c = "fare_amount" -> f
          [] c = "tip_amount" -> t
          [] c = "duration_mins" -> d
          [] c = "trip_distance" -> s]

Tables(rows, n) == UNION {[1..k -> rows] : k \in 0..n}

\* rides with a pickup time T or none, fares and tips that offset each other
CancelRows ==
    {Row(<<"T">>, f, t, <<1>>, <<1>>) :
        f \in {NaN, <<-1>>, <<0>>, <<1>>}, t \in {NaN, <<-1>>, <<1>>}}
    \cup {Row(NaN, f, NaN, <<1>>, <<1>>) : f \in {<<-1>>, <<1>>}}

\* duplicated charge and refund records of one ride
DupRows ==
    {Row(<<"T">>, f, t, <<1>>, <<1>>) : f \in {<<-1>>, <<1>>}, t \in {<<-1>>, <<1>>}}

DupTables == [1..4 -> DupRows]

OutlierRows ==
    {Row(<<"T">>, <<1>>, NaN, d, s) : d \in {NaN, <<1>>, <<2>>, <<3>>}, s \in {<<0>>, <<1>>, <<2>>}}

\* durations 1..100 with the distances mirroring them
Hundred == [i \in 1..100 |-> Row(<<"T">>, <<1>>, NaN, <<i>>, <<i>>)]

AllRows ==
    {Row(k, f, NaN, d, s) : k \in {NaN, <<"T">>}, f \in {<<-1>>, <<1>>},
                            d \in {NaN, <<1>>}, s \in {<<0>>, <<1>>}}

IdColChoices == {<<"PU_datetime">>, <<"PU_datetime", "DO_datetime">>,
                 <<"DO_datetime", "PU_datetime">>}

FeeColChoices == {<<"fare_amount">>, <<"fare_amount", "tip_amount">>,
                  <<"tip_amount">>, <<"fare_amount", "tolls_amount">>}

Percents == {-1, 0, 1, 99, 100, 101}

----------------------------------------------------------------------------
(* The caller *)

InitWith(tables) ==
    /\ df \in tables
    /\ df_in = df
    /\ ride_id_cols = <<>>
    /\ fee_cols = <<>>
    /\ lower = 1
    /\ upper = 99
    /\ matched_pairs = <<>>
    /\ result = <<>>
    /\ returned = FALSE
    /\ err = "none"
    /\ pc = "start"
    /\ pass = 1
    /\ prev = <<>>

Init == InitWith(Tables(AllRows, MaxAllRows))

InitCancel == InitWith(Tables(CancelRows, MaxRows) \cup DupTables)

InitOutliers == InitWith(Tables(OutlierRows, MaxOutRows) \cup {Hundred})

\* matched_pairs = identify_cancelled_rides(df, ride_id_cols, fee_cols)
IdentifyCancelledRides ==
    /\ pc = "start"
    /\ \E cols \in IdColChoices, fees \in FeeColChoices :
          /\ pass = 2 => (cols = ride_id_cols /\ fees = fee_cols)
          /\ LET r == identify_cancelled_rides(df, cols, fees)
             IN  /\ df' = r.df
                 /\ matched_pairs' = r.matched_pairs
                 /\ err' = r.err
                 /\ pc' = IF r.err = "none" THEN "identified" ELSE "cancel_failed"
          /\ ride_id_cols' = cols
          /\ fee_cols' = fees
    /\ UNCHANGED <<df_in, lower, upper, result, returned, pass, prev>>

\* result = remove_cancelled_fare_pairs(df, matched_pairs)
RemoveCancelledFarePairs ==
    /\ pc = "identified"
    /\ result' = remove_cancelled_fare_pairs(df, matched_pairs)
    /\ returned' = TRUE
    /\ pc' = "resolved"
    /\ UNCHANGED <<df, df_in, ride_id_cols, fee_cols, lower, upper, matched_pairs,
                   err, pass, prev>>

\* the caller feeds the resolver its own output, with the same column lists
Rerun ==
    /\ pc = "resolved"
    /\ pass = 1
    /\ df' = result
    /\ df_in' = result
    /\ prev' = result
    /\ pass' = 2
    /\ matched_pairs' = <<>>
    /\ result' = <<>>
    /\ returned' = FALSE
    /\ pc' = "start"
    /\ UNCHANGED <<ride_id_cols, fee_cols, lower, upper, err>>

\* result = remove_outliers(df, lower=lo, upper=up)
RemoveOutliers ==
    /\ pc = "start"
    /\ pass = 1
    /\ \E lo \in Percents, up \in Percents :
          /\ lower' = lo
          /\ upper' = up
          /\ LET r == remove_outliers(df, lo, up)
             IN  /\ result' = r.result
                 /\ err' = r.err
                 /\ returned' = (r.err = "none")
                 /\ pc' = IF r.err = "none" THEN "filtered" ELSE "outliers_failed"
    /\ UNCHANGED <<df, df_in, ride_id_cols, fee_cols, matched_pairs, pass, prev>>

NextCancel == IdentifyCancelledRides \/ RemoveCancelledFarePairs \/ Rerun

NextOutliers == RemoveOutliers

Next == IdentifyCancelledRides \/ RemoveCancelledFarePairs \/ Rerun \/ RemoveOutliers

Spec == Init /\ [][Next]_vars

SpecCancel == InitCancel /\ [][NextCancel]_vars

SpecOutliers == InitOutliers /\ [][NextOutliers]_vars

----------------------------------------------------------------------------
(* The cancellation resolver: what the specification asks of it *)

NegGroup(t, i) == \E f \in Range(fee_cols) : lt(t[i][f], 0)

PosGroup(t, i) == \E f \in Range(fee_cols) : gt(t[i][f], 0)

SameKey(t, i, j) == \A c \in Range(ride_id_cols) : t[i][c] = t[j][c]

ExactNegation(t, i, j) == \A f \in Range(fee_cols) : t[i][f][1] + t[j][f][1] = 0

\* rows n (negative side) and p (positive side) form an accepted matched pair
MatchedPair(t, n, p) ==
    /\ NegGroup(t, n) /\ PosGroup(t, p)
    /\ SameKey(t, n, p)
    /\ ExactNegation(t, n, p)

InSomePair(t, i) == \E j \in DOMAIN t : MatchedPair(t, i, j) \/ MatchedPair(t, j, i)

\* the rows the resolver is asked to return, in their original order
Survivors(t) ==
    LET keep(i) == ~InSomePair(t, i) /\ ge(t[i]["fare_amount"], 0)
    IN  take(t, Positions([r \in 1..Len(t) |-> keep(r)]))

\* C1: the resolver returns, in original order, exactly the records that are
\* in no accepted matched pair and whose fare amount is >= 0.
C1_ExactlyTheUnmatched ==
    pc = "resolved" => result = Survivors(df)

\* C2: after cancellation resolution no returned record has a negative fare.
C2_NoNegativeFare ==
    pc = "resolved" => \A k \in DOMAIN result : ~lt(result[k]["fare_amount"], 0)

\* a negative fare that the index-based removal left in place, dropped by the
\* final filter while other rows are returned
C2_Witness ==
    /\ pc = "resolved"
    /\ result # <<>>
    /\ \E i \in DOMAIN df :
          /\ lt(df[i]["fare_amount"], 0)
          /\ (i - 1) \notin matched_idx(matched_pairs)
          /\ ~InSomePair(df, i)

\* C3: a second pass of the resolver over its own output returns that output.
C3_Idempotent ==
    (pass = 2 /\ pc = "resolved") => result = prev

\* two negative-fare and two positive-fare rows of one key, each negative one
\* the exact negation of each positive one
AmbiguousDuplicates(t, n1, n2, p1, p2) ==
    /\ n1 # n2 /\ p1 # p2
    /\ \A n \in {n1, n2} : lt(t[n]["fare_amount"], 0)
    /\ \A p \in {p1, p2} : gt(t[p]["fare_amount"], 0)
    /\ \A n \in {n1, n2}, p \in {p1, p2} : SameKey(t, n, p) /\ ExactNegation(t, n, p)

\* C4: with two negative-fare and two positive-fare records of one key that
\* negate each other in all four combinations, the join accepts the four
\* combinations and none of the four records is in the output.
C4_AllFourRemoved ==
    (pc = "resolved" /\ "fare_amount" \in Range(fee_cols)) =>
        \A n1, n2, p1, p2 \in DOMAIN df :
            AmbiguousDuplicates(df, n1, n2, p1, p2) =>
                /\ \A n \in {n1, n2}, p \in {p1, p2} :
                      \E k \in DOMAIN matched_pairs :
                          matched_pairs[k].neg = n /\ matched_pairs[k].pos = p
                /\ \A i \in {n1, n2, p1, p2} :
                      i \notin Range(kept_positions(df, matched_pairs))

\* C9: a call that names an absent column fails without a result table and
\* without any part of the normalization or the matching having taken effect.
C9_FailsWholly ==
    pc = "cancel_failed" =>
        /\ err # "none"
        /\ ~returned
        /\ matched_pairs = <<>>
        /\ df = df_in

AllZero(t, i) == \A f \in Range(fee_cols) : fillna(t[i][f], 0) = <<0>>

\* C10: no accepted pair joins a record with itself, and a record whose
\* monetary fields are all zero after normalization is in neither group and
\* in no accepted pair.
C10_NoSelfPair ==
    pc = "identified" =>
        /\ \A k \in DOMAIN matched_pairs : matched_pairs[k].neg # matched_pairs[k].pos
        /\ \A i \in DOMAIN df :
              AllZero(df_in, i) =>
                 /\ i \notin Range(neg_fare(df, fee_cols))
                 /\ i \notin Range(pos_fare(df, fee_cols))
                 /\ \A k \in DOMAIN matched_pairs :
                       matched_pairs[k].neg # i /\ matched_pairs[k].pos # i

\* a record of both groups that the join pairs with itself as a candidate and
\* that is accepted in a pair with another record; an all-zero record beside it
C10_Witness ==
    /\ pc = "identified"
    /\ \E i \in DOMAIN df :
          /\ i \in Range(neg_fare(df, fee_cols))
          /\ i \in Range(pos_fare(df, fee_cols))
          /\ \E k \in DOMAIN matched_pairs : matched_pairs[k].neg = i
    /\ \E z \in DOMAIN df : AllZero(df_in, z) /\ \E f \in Range(fee_cols) : isna(df_in[z][f])

----------------------------------------------------------------------------
(* The outlier filter: what the specification asks of it *)

Positive(t, i) == gt(t[i]["duration_mins"], 0) /\ gt(t[i]["trip_distance"], 0)

\* the values of column c over the rows that pass the positivity filter
PositiveValues(t, c) ==
    LET pos(i) == Positive(t, i)
    IN  column(take(t, Positions([r \in 1..Len(t) |-> pos(r)])), c)

\* the order statistic of rank k (from 0): the value with at most k values
\* below it and more than k values not above it
OrderStat(S, k) ==
    CHOOSE v \in Range(S) :
        /\ Cardinality({i \in DOMAIN S : S[i] < v}) <= k
        /\ Cardinality({i \in DOMAIN S : S[i] <= v}) > k

\* the quantile at level p/100 by linear interpolation between the order
\* statistics around position p/100 * (n - 1), times 100
LinearQuantile(S, p) ==
    LET h == p * (Len(S) - 1)
        lo == h \div 100
        frac == h % 100
    IN  IF frac = 0 THEN 100 * OrderStat(S, lo)
        ELSE (100 - frac) * OrderStat(S, lo) + frac * OrderStat(S, lo + 1)

WithinBand(x, S, lo, up) ==
    100 * x >= LinearQuantile(S, lo) /\ 100 * x <= LinearQuantile(S, up)

\* the positive rows of t whose duration and distance lie in the inclusive
\* quantile band of the positive rows, in their original order
BandOfThePositive(t, lo, up) ==
    LET D == PositiveValues(t, "duration_mins")
        S == PositiveValues(t, "trip_distance")
        keep(i) ==
            /\ Positive(t, i)
            /\ WithinBand(t[i]["duration_mins"][1], D, lo, up)
            /\ WithinBand(t[i]["trip_distance"][1], S, lo, up)
    IN  IF \E i \in DOMAIN t : Positive(t, i)
        THEN take(t, Positions([r \in 1..Len(t) |-> keep(r)]))
        ELSE <<>>

OutliersCalled == pc \in {"filtered", "outliers_failed"}

ValidLevel(p) == p \in 0..100

\* C5: with a non-empty positivity-filtered set the filter returns, in
\* original order, exactly the positive records inside the inclusive band of
\* both fields, the band interpolated over the positive records; it never
\* returns more rows than it got, and of the durations and distances 1..100
\* with levels 0.01 and 0.99 it keeps exactly 2..99.
C5_BandOfThePositive ==
    (pc = "filtered" /\ \E i \in DOMAIN df_in : Positive(df_in, i)) =>
        /\ result = BandOfThePositive(df_in, lower, upper)
        /\ Len(result) <= Len(df_in)
        /\ (df_in = Hundred /\ lower = 1 /\ upper = 99) => result = SubSeq(Hundred, 2, 99)

\* the band cuts a positive record off and the positivity filter another
C5_Witness ==
    /\ pc = "filtered"
    /\ lower < upper
    /\ result # <<>>
    /\ \E i \in DOMAIN df_in : ~Positive(df_in, i)
    /\ \E i \in DOMAIN df_in : Positive(df_in, i) /\ df_in[i] \notin Range(result)

\* C6 as the specification states it: a positivity filter that leaves no
\* record makes the call fail without a result table.
C6_EmptyInputError ==
    (OutliersCalled /\ ~\E i \in DOMAIN df_in : Positive(df_in, i)) =>
        err # "none" /\ ~returned

\* C6 as the code has it: with quantile levels inside [0, 1] a positivity
\* filter that leaves no record makes the call return an empty table, without
\* an error.
C6_EmptyGivesEmptyTable ==
    (/\ OutliersCalled
     /\ ValidLevel(lower) /\ ValidLevel(upper)
     /\ ~\E i \in DOMAIN df_in : Positive(df_in, i)) =>
        pc = "filtered" /\ err = "none" /\ returned /\ result = <<>>

\* a table of records that all fail the positivity filter has been filtered
C6_Witness ==
    /\ pc = "filtered"
    /\ df_in # <<>>
    /\ ~\E i \in DOMAIN df_in : Positive(df_in, i)
    /\ result = <<>>

\* C7 as the specification states it: a quantile level outside [0, 1], or
\* lower >= upper, makes the call fail without a result table.
C7_ConfigError ==
    (OutliersCalled /\ (~ValidLevel(lower) \/ ~ValidLevel(upper) \/ lower >= upper)) =>
        err # "none" /\ ~returned

\* C7 as the code has it: a quantile level outside [0, 1] makes the call fail
\* with a ValueError, without a result table and with the input untouched;
\* levels inside [0, 1] never fail, and with lower >= upper the call returns
\* the positive records inside the (possibly empty) band.
C7_OnlyTheRangeIsChecked ==
    OutliersCalled =>
        IF ~ValidLevel(lower) \/ ~ValidLevel(upper)
        THEN /\ pc = "outliers_failed" /\ err = "ValueError"
             /\ ~returned /\ result = <<>>
             /\ df = df_in
        ELSE /\ pc = "filtered" /\ err = "none" /\ returned
             /\ lower >= upper => result = BandOfThePositive(df_in, lower, upper)

\* a call with lower > upper that returned records
C7_Witness ==
    /\ pc = "filtered"
    /\ lower > upper
    /\ result # <<>>

----------------------------------------------------------------------------
(* The caller's table *)

\* the table identify_cancelled_rides leaves behind when it succeeds
Normalized(t) ==
    [i \in DOMAIN t |->
        [c \in Columns |->
            IF c \in Range(ride_id_cols) THEN fillna(t[i][c], "N/A")
            ELSE IF c \in Range(fee_cols) THEN fillna(t[i][c], 0)
            ELSE t[i][c]]]

\* C8 as the specification states it: no call changes the caller's table.
C8_InputUnchanged == df = df_in

\* C8 as the code has it: remove_outliers and remove_cancelled_fare_pairs
\* leave the caller's table as it is, whether they fail or not;
\* identify_cancelled_rides keeps the rows and every non-null cell, and
\* writes 'N/A' over the nulls of the identity columns and 0 over the nulls
\* of the monetary columns.
C8_OnlyNullsRewritten ==
    /\ Len(df) = Len(df_in)
    /\ \A i \in DOMAIN df : \A c \in Columns :
          \/ df[i][c] = df_in[i][c]
          \/ /\ isna(df_in[i][c])
             /\ pc \in {"identified", "resolved", "cancel_failed"}
             /\ \/ c \in Range(ride_id_cols) /\ df[i][c] = <<"N/A">>
                \/ c \in Range(fee_cols) /\ df[i][c] = <<0>>
    /\ pc \in {"start", "filtered", "outliers_failed"} => df = df_in
    /\ pc \in {"identified", "resolved"} => df = Normalized(df_in)

\* the resolver has returned and the caller's table is no longer what it was
C8_Witness ==
    /\ pc = "resolved"
    /\ df # df_in
    /\ \E i \in DOMAIN df : isna(df_in[i]["PU_datetime"]) /\ df[i]["PU_datetime"] = <<"N/A">>

====
